---- MODULE Spec2Model ----
(***************************************************************************)
(* The CodingExercise widget of src/theme.config.tsx (lines 54-134): a     *)
(* React function component with three state hooks (code, isGrading,       *)
(* feedback), an async submit handler that POSTs to /api/grade, and a      *)
(* render of an editor, a submit button and a feedback panel.              *)
(*                                                                         *)
(* React keeps two copies of the component's state: the hook state, which  *)
(* the setters update, and the committed render (`view`), which is what    *)
(* the DOM shows and what the closures of the event handlers captured.     *)
(* A setter called in a discrete DOM event (click, editor change) is       *)
(* committed before the browser delivers the next event; a setter called   *)
(* in the continuation of an await is committed by a later render.         *)
(***************************************************************************)
EXTENDS Integers, Sequences, FiniteSets, TLC

\* ------------------------------------------------------------------ bounds
\* Invocations of handleSubmit in one behaviour.
MaxSubmits == 2

\* ------------------------------------------------------------------ values
\* A prop the caller did not pass (`undefined` at the destructuring).
Omitted == "<omitted>"
\* JavaScript `undefined`, as read from an absent property.
Undefined == "<undefined>"

\* Props the page may pass to the component.
InitCodes == {Omitted, "print('hi')", "pass"}
Lessons == {Omitted, "lesson-1"}
Corrections == {Omitted, "def f(): pass"}
\* Texts the reader may type into the editor.
EditTexts == {"", "x = 1"}
\* Feedback texts the grading service may send.
FeedbackTexts == {"", "Looks good", "Try again"}
\* HTTP statuses of a response (fetch resolves for every status).
Statuses == {200, 500}

\* Parsed JSON values: null, or an object given by its fields.
JsonNull == [kind |-> "null", fields |-> <<>>]
JsonObject(fields) == [kind |-> "object", fields |-> fields]
NoResult == [kind |-> "none", fields |-> <<>>]
JsonValues ==
  {JsonNull, JsonObject([error |-> "Internal Server Error"])}
    \cup {JsonObject([feedback |-> f]) : f \in FeedbackTexts}

\* Bug variant: the handler reads a field the service does not send.
ReadFeedback_WrongField(result) ==
  IF "message" \in DOMAIN result.fields THEN result.fields.message ELSE Undefined

\* Bug variant: an absent field reads as the empty string.
ReadFeedback_DefaultsEmpty(result) ==
  IF "feedback" \in DOMAIN result.fields THEN result.fields.feedback ELSE ""

\* result.feedback: a property read. An absent property reads undefined.
ReadFeedback(result) ==
  IF "feedback" \in DOMAIN result.fields THEN result.fields.feedback ELSE Undefined

\* Bug variant: the props are destructured without defaults.
Default_None(p) == p

\* Destructuring default `= ""` of a prop.
Default(p) == IF p = Omitted THEN "" ELSE p

\* ------------------------------------------------------------------ state
VARIABLES
  props,      \* the props passed: [initCode, lesson, correction]
  editor,     \* the document of the CodeMirror editor (what the reader typed)
  code,       \* hook state `code`
  isGrading,  \* hook state `isGrading`
  feedback,   \* hook state `feedback`
  view,       \* the committed render: [code, isGrading, feedback]
  syncPending,\* a discrete event's updates wait for React's flush
  calls,      \* invocations of handleSubmit: [pc, status, result]
  requests,   \* every request handed to fetch, in order
  clicks,     \* onClick firings of the submit button
  unhandled,  \* promises of handleSubmit that rejected (nobody catches)
  pristine,   \* no event has been handled since the mount
  peer        \* a second CodingExercise mounted on the same page

vars == <<props, editor, code, isGrading, feedback, view, syncPending, calls,
          requests, clicks, unhandled, pristine, peer>>

\* Bug variant: useState("") for the editor, the seed is ignored.
InitialState_SeedIgnored(p) ==
  [code |-> "", isGrading |-> FALSE, feedback |-> ""]

\* useState(initCode), useState(false), useState("")
InitialState(p) ==
  [code |-> Default(p.initCode), isGrading |-> FALSE, feedback |-> ""]

\* The second instance: the props its page passes and its state at the mount.
\* Each instance has its own hooks: editor, code, isGrading, feedback, the
\* committed render, its calls of handleSubmit and the requests they sent.
PeerProps == [initCode |-> "pass", lesson |-> "lesson-2", correction |-> Omitted]
PeerInit ==
  [props |-> PeerProps,
   editor |-> InitialState(PeerProps).code,
   code |-> InitialState(PeerProps).code,
   isGrading |-> InitialState(PeerProps).isGrading,
   feedback |-> InitialState(PeerProps).feedback,
   view |-> InitialState(PeerProps),
   calls |-> <<>>,
   requests |-> <<>>]

Init ==
  /\ props \in [initCode : InitCodes, lesson : Lessons, correction : Corrections]
  /\ editor = InitialState(props).code
  /\ code = InitialState(props).code
  /\ isGrading = InitialState(props).isGrading
  /\ feedback = InitialState(props).feedback
  /\ view = InitialState(props)
  /\ syncPending = FALSE
  /\ calls = <<>>
  /\ requests = <<>>
  /\ clicks = 0
  /\ unhandled = 0
  /\ pristine = TRUE
  /\ peer = PeerInit

\* ------------------------------------------------------------------ render
\* Bug variant: the button without its `disabled` attribute.
Disabled_NeverDisabled == FALSE

\* <button disabled={isGrading}>
Disabled == view.isGrading
\* Bug variant: the label does not follow the flag.
ButtonLabel_AlwaysSubmit == "Submit"

\* {isGrading ? "Grading..." : "Submit"}
ButtonLabel == IF view.isGrading THEN "Grading..." ELSE "Submit"
\* Bug variant: the panel is rendered for every defined value, "" included.
PanelShown_WhenDefined == view.feedback # Undefined

\* {feedback && (...)}: "" and undefined are falsy
PanelShown == view.feedback \notin {"", Undefined}

\* The render React commits for the updates of a discrete event (sync lane):
\* setCode from onChange and setIsGrading(true) from onClick. Updates queued
\* by an await continuation are left to the next Render.
SyncCommit(v, c, g) ==
  [code |-> c, isGrading |-> v.isGrading \/ g, feedback |-> v.feedback]

\* ------------------------------------------------------------------ submit
\* Bug variant: the body carries the seed instead of the edited text.
Request_SendsSeed(v) ==
  [url |-> "/api/grade",
   method |-> "POST",
   contentType |-> "application/json",
   body |-> [code |-> Default(props.initCode),
             lesson |-> Default(props.lesson),
             correction |-> Default(props.correction)]]

\* fetch("/api/grade", {method, body: JSON.stringify({code, lesson, correction}), headers})
\* `code` is the value the handler's closure captured at the committed render.
RequestOf(p, v) ==
  [url |-> "/api/grade",
   method |-> "POST",
   contentType |-> "application/json",
   body |-> [code |-> v.code,
             lesson |-> Default(p.lesson),
             correction |-> Default(p.correction)]]

\* The request of the first instance.
Request(v) == RequestOf(props, v)

\* handleSubmit up to its first await: setIsGrading(true); fetch(...)
NewCall == [pc |-> "fetch", status |-> 0, result |-> NoResult]

\* Calls whose request has not been answered to the end.
Outstanding == {i \in DOMAIN calls : calls[i].pc \in {"fetch", "json"}}

\* Bug variant: the button works once; after the first submit it stays dead.
Click_OneShot ==
  /\ ~syncPending
  /\ ~Disabled
  /\ calls = <<>>
  /\ Len(calls) < MaxSubmits
  /\ isGrading' = TRUE
  /\ requests' = Append(requests, Request(view))
  /\ calls' = Append(calls, NewCall)
  /\ clicks' = clicks + 1
  /\ view' = SyncCommit(view, code, TRUE)
  /\ pristine' = FALSE
  /\ UNCHANGED <<peer, props, editor, code, feedback, syncPending, unhandled>>

\* Bug variant: the handler clears the stored feedback when a submit starts.
Click_ClearsFeedback ==
  /\ ~syncPending
  /\ ~Disabled
  /\ Len(calls) < MaxSubmits
  /\ isGrading' = TRUE
  /\ feedback' = ""
  /\ requests' = Append(requests, Request(view))
  /\ calls' = Append(calls, NewCall)
  /\ clicks' = clicks + 1
  /\ view' = [SyncCommit(view, code, TRUE) EXCEPT !.feedback = ""]
  /\ pristine' = FALSE
  /\ UNCHANGED <<peer, props, editor, code, syncPending, unhandled>>

\* A click on the submit button: the browser fires onClick only while the
\* button is not disabled. React commits the update before the next event.
Click ==
  /\ ~syncPending
  /\ ~Disabled
  /\ Len(calls) < MaxSubmits
  /\ isGrading' = TRUE
  /\ requests' = Append(requests, Request(view))
  /\ calls' = Append(calls, NewCall)
  /\ clicks' = clicks + 1
  /\ view' = SyncCommit(view, code, TRUE)
  /\ pristine' = FALSE
  /\ UNCHANGED <<peer, props, editor, code, feedback, syncPending, unhandled>>

\* Bug variant: the request keeps a live reference to the editor text, so
\* an edit rewrites the body of the request in flight.
Edit_RewritesRequestInFlight(t) ==
  /\ ~syncPending
  /\ editor' = t
  /\ code' = t
  /\ requests' = [i \in DOMAIN requests |->
                    IF calls[i].pc \in {"fetch", "json"}
                    THEN [requests[i] EXCEPT !.body.code = t]
                    ELSE requests[i]]
  /\ view' = SyncCommit(view, t, FALSE)
  /\ pristine' = FALSE
  /\ UNCHANGED <<peer, props, isGrading, feedback, syncPending, calls, clicks,
                 unhandled>>

\* Bug variant: an edit also cancels the grading in progress.
Edit_CancelsGrading(t) ==
  /\ ~syncPending
  /\ editor' = t
  /\ code' = t
  /\ isGrading' = FALSE
  /\ view' = [SyncCommit(view, t, FALSE) EXCEPT !.isGrading = FALSE]
  /\ pristine' = FALSE
  /\ UNCHANGED <<peer, props, feedback, syncPending, calls, requests, clicks,
                 unhandled>>

\* Bug variant: the editor is read-only while a submission is graded.
Edit_BlockedWhileGrading(t) ==
  /\ ~syncPending
  /\ ~isGrading
  /\ editor' = t
  /\ code' = t
  /\ view' = SyncCommit(view, t, FALSE)
  /\ pristine' = FALSE
  /\ UNCHANGED <<peer, props, isGrading, feedback, syncPending, calls, requests,
                 clicks, unhandled>>

\* <CodeMirror value={code} onChange={(value) => setCode(value)}>: the
\* reader changes the document to t and onChange hands it to setCode.
Edit(t) ==
  /\ ~syncPending
  /\ editor' = t
  /\ code' = t
  /\ view' = SyncCommit(view, t, FALSE)
  /\ pristine' = FALSE
  /\ UNCHANGED <<peer, props, isGrading, feedback, syncPending, calls, requests,
                 clicks, unhandled>>

\* Bug variant: a response with an error status is retried: the request is
\* sent again and the call keeps waiting.
FetchResolve_RetriesOnError(i, s) ==
  /\ ~syncPending
  /\ i \in DOMAIN calls
  /\ calls[i].pc = "fetch"
  /\ IF s \in 200..299
     THEN /\ calls' = [calls EXCEPT ![i].pc = "json", ![i].status = s]
          /\ requests' = requests
     ELSE /\ calls' = calls
          /\ Len(requests) < 2 * MaxSubmits
          /\ requests' = Append(requests, requests[i])
  /\ pristine' = FALSE
  /\ UNCHANGED <<peer, props, editor, code, isGrading, feedback, view,
                 syncPending, clicks, unhandled>>

\* Bug variant: the flag is cleared when the headers arrive, before the body.
FetchResolve_ClearsEarly(i, s) ==
  /\ ~syncPending
  /\ i \in DOMAIN calls
  /\ calls[i].pc = "fetch"
  /\ calls' = [calls EXCEPT ![i].pc = "json", ![i].status = s]
  /\ isGrading' = FALSE
  /\ pristine' = FALSE
  /\ UNCHANGED <<peer, props, editor, code, feedback, view, syncPending,
                 requests, clicks, unhandled>>

\* `await fetch(...)` resolves: a response with any status arrived;
\* the handler goes on to `await response.json()`.
FetchResolve(i, s) ==
  /\ ~syncPending
  /\ i \in DOMAIN calls
  /\ calls[i].pc = "fetch"
  /\ calls' = [calls EXCEPT ![i].pc = "json", ![i].status = s]
  /\ pristine' = FALSE
  /\ UNCHANGED <<peer, props, editor, code, isGrading, feedback, view, syncPending,
                 requests, clicks, unhandled>>

\* `await fetch(...)` rejects (transport error): the handler has no
\* try/catch, so its promise rejects and the rest of it never runs.
FetchReject(i) ==
  /\ ~syncPending
  /\ i \in DOMAIN calls
  /\ calls[i].pc = "fetch"
  /\ calls' = [calls EXCEPT ![i].pc = "threw"]
  /\ unhandled' = unhandled + 1
  /\ pristine' = FALSE
  /\ UNCHANGED <<peer, props, editor, code, isGrading, feedback, view, syncPending,
                 requests, clicks>>

\* `await response.json()` rejects: the payload is not JSON.
JsonReject(i) ==
  /\ ~syncPending
  /\ i \in DOMAIN calls
  /\ calls[i].pc = "json"
  /\ calls' = [calls EXCEPT ![i].pc = "threw"]
  /\ unhandled' = unhandled + 1
  /\ pristine' = FALSE
  /\ UNCHANGED <<peer, props, editor, code, isGrading, feedback, view, syncPending,
                 requests, clicks>>

\* `await response.json()` resolves with null: `result.feedback` throws a
\* TypeError before any setter is called.
JsonNullResolve(i) ==
  /\ ~syncPending
  /\ i \in DOMAIN calls
  /\ calls[i].pc = "json"
  /\ calls' = [calls EXCEPT ![i].pc = "threw", ![i].result = JsonNull]
  /\ unhandled' = unhandled + 1
  /\ pristine' = FALSE
  /\ UNCHANGED <<peer, props, editor, code, isGrading, feedback, view, syncPending,
                 requests, clicks>>

\* Bug variant: the feedback is stored but the flag is never cleared.
JsonResolve_KeepsGrading(i, r) ==
  /\ ~syncPending
  /\ i \in DOMAIN calls
  /\ calls[i].pc = "json"
  /\ r.kind = "object"
  /\ feedback' = ReadFeedback(r)
  /\ calls' = [calls EXCEPT ![i].pc = "done", ![i].result = r]
  /\ pristine' = FALSE
  /\ UNCHANGED <<peer, props, editor, code, isGrading, view, syncPending,
                 requests, clicks, unhandled>>

\* Bug variant: the flag is cleared but the feedback is not stored yet.
JsonResolve_FeedbackLater(i, r) ==
  /\ ~syncPending
  /\ i \in DOMAIN calls
  /\ calls[i].pc = "json"
  /\ r.kind = "object"
  /\ isGrading' = FALSE
  /\ calls' = [calls EXCEPT ![i].pc = "done", ![i].result = r]
  /\ pristine' = FALSE
  /\ UNCHANGED <<peer, props, editor, code, feedback, view, syncPending,
                 requests, clicks, unhandled>>

\* Bug variant: feedback kept in a module-level variable that every
\* instance on the page reads and writes.
JsonResolve_SharedFeedback(i, r) ==
  /\ ~syncPending
  /\ i \in DOMAIN calls
  /\ calls[i].pc = "json"
  /\ r.kind = "object"
  /\ feedback' = ReadFeedback(r)
  /\ peer' = [peer EXCEPT !.feedback = ReadFeedback(r)]
  /\ isGrading' = FALSE
  /\ calls' = [calls EXCEPT ![i].pc = "done", ![i].result = r]
  /\ pristine' = FALSE
  /\ UNCHANGED <<props, editor, code, view, syncPending, requests, clicks,
                 unhandled>>

\* Bug variant: the handler resets the editor text to the seed once graded.
JsonResolve_ResetsEditor(i, r) ==
  /\ ~syncPending
  /\ i \in DOMAIN calls
  /\ calls[i].pc = "json"
  /\ r.kind = "object"
  /\ feedback' = ReadFeedback(r)
  /\ isGrading' = FALSE
  /\ code' = Default(props.initCode)
  /\ editor' = Default(props.initCode)
  /\ calls' = [calls EXCEPT ![i].pc = "done", ![i].result = r]
  /\ pristine' = FALSE
  /\ UNCHANGED <<peer, props, view, syncPending, requests, clicks, unhandled>>

\* `await response.json()` resolves with an object:
\* setFeedback(result.feedback); setIsGrading(false). The status is not read.
JsonResolve(i, r) ==
  /\ ~syncPending
  /\ i \in DOMAIN calls
  /\ calls[i].pc = "json"
  /\ r.kind = "object"
  /\ feedback' = ReadFeedback(r)
  /\ isGrading' = FALSE
  /\ calls' = [calls EXCEPT ![i].pc = "done", ![i].result = r]
  /\ pristine' = FALSE
  /\ UNCHANGED <<peer, props, editor, code, view, syncPending, requests, clicks, unhandled>>

\* React renders and commits the updates queued by an await continuation.
Render ==
  /\ ~syncPending
  /\ view # [code |-> code, isGrading |-> isGrading, feedback |-> feedback]
  /\ view' = [code |-> code, isGrading |-> isGrading, feedback |-> feedback]
  /\ pristine' = FALSE
  /\ UNCHANGED <<peer, props, editor, code, isGrading, feedback, syncPending, calls,
                 requests, clicks, unhandled>>

Next ==
  \/ Click
  \/ \E t \in EditTexts : Edit(t)
  \/ \E i \in 1..MaxSubmits, s \in Statuses : FetchResolve(i, s)
  \/ \E i \in 1..MaxSubmits : FetchReject(i)
  \/ \E i \in 1..MaxSubmits : JsonReject(i)
  \/ \E i \in 1..MaxSubmits : JsonNullResolve(i)
  \/ \E i \in 1..MaxSubmits, r \in JsonValues : JsonResolve(i, r)
  \/ Render

\* The widget driven by browser events, each handled in a task of its own.
Spec == Init /\ [][Next]_vars

\* ------------------------------------------------ events within one task
\* React 18 flushes the updates of a discrete event in a microtask. A script
\* that dispatches events back to back (button.click(); button.click())
\* runs the second handler before that flush: the DOM and the closures are
\* still those of the previous render.
ClickInTask ==
  /\ ~Disabled
  /\ Len(calls) < MaxSubmits
  /\ isGrading' = TRUE
  /\ requests' = Append(requests, Request(view))
  /\ calls' = Append(calls, NewCall)
  /\ clicks' = clicks + 1
  /\ syncPending' = TRUE
  /\ pristine' = FALSE
  /\ UNCHANGED <<peer, props, editor, code, feedback, view, unhandled>>

EditInTask(t) ==
  /\ editor' = t
  /\ code' = t
  /\ syncPending' = TRUE
  /\ pristine' = FALSE
  /\ UNCHANGED <<peer, props, isGrading, feedback, view, calls, requests, clicks,
                 unhandled>>

\* The microtask that commits the pending updates of the task's events.
Flush ==
  /\ syncPending
  /\ syncPending' = FALSE
  /\ view' = SyncCommit(view, code, isGrading)
  /\ pristine' = FALSE
  /\ UNCHANGED <<peer, props, editor, code, isGrading, feedback, calls, requests, clicks,
                 unhandled>>

NextSameTask ==
  \/ Next
  \/ ClickInTask
  \/ \E t \in EditTexts : EditInTask(t)
  \/ Flush

\* The widget when events may also be dispatched back to back in one task.
SpecSameTask == Init /\ [][NextSameTask]_vars

\* ------------------------------------------------ a service that answers
\* Every request is answered, with a 2xx status and a JSON object that has
\* a feedback field; React renders what the continuation queued.
SuccessStatuses == {s \in Statuses : s \in 200..299}
SuccessValues ==
  {r \in JsonValues : r.kind = "object" /\ "feedback" \in DOMAIN r.fields}

NextAnswered ==
  \/ Click
  \/ \E t \in EditTexts : Edit(t)
  \/ \E i \in 1..MaxSubmits, s \in SuccessStatuses : FetchResolve(i, s)
  \/ \E i \in 1..MaxSubmits, r \in SuccessValues : JsonResolve(i, r)
  \/ Render

SpecAnswered ==
  /\ Init
  /\ [][NextAnswered]_vars
  /\ WF_vars(\E i \in 1..MaxSubmits, s \in SuccessStatuses : FetchResolve(i, s))
  /\ WF_vars(\E i \in 1..MaxSubmits, r \in SuccessValues : JsonResolve(i, r))
  /\ WF_vars(Render)

\* ------------------------------------------------------- two instances
\* The same component mounted twice. The handlers of the second instance
\* are those of the first, over its own hooks (the record `peer`).
MaxPeerSubmits == 1
\* The inputs of the two-instance specification: one text per editor, one
\* status and one feedback, next to the three ways a call can throw.
OwnEditTexts == {"x = 1"}
PeerEditTexts == {"y = 2"}
PeerStatuses == {200}
PeerJsonValues == {JsonObject([feedback |-> "Looks good"])}

\* The variables of the first instance.
own == <<props, editor, code, isGrading, feedback, view, syncPending, calls,
         requests, clicks, unhandled, pristine>>

\* onClick={handleSubmit} up to the first await, on a button not disabled.
PeerClick ==
  /\ ~syncPending
  /\ ~peer.view.isGrading
  /\ Len(peer.calls) < MaxPeerSubmits
  /\ peer' = [peer EXCEPT !.isGrading = TRUE,
                          !.requests = Append(@, RequestOf(peer.props, peer.view)),
                          !.calls = Append(@, NewCall),
                          !.view = SyncCommit(peer.view, peer.code, TRUE)]
  /\ UNCHANGED own

\* onChange={(value) => setCode(value)}
PeerEdit(t) ==
  /\ ~syncPending
  /\ peer' = [peer EXCEPT !.editor = t,
                          !.code = t,
                          !.view = SyncCommit(peer.view, t, FALSE)]
  /\ UNCHANGED own

\* await fetch(...) resolves
PeerFetchResolve(i, s) ==
  /\ ~syncPending
  /\ i \in DOMAIN peer.calls
  /\ peer.calls[i].pc = "fetch"
  /\ peer' = [peer EXCEPT !.calls[i].pc = "json", !.calls[i].status = s]
  /\ UNCHANGED own

\* await fetch(...) rejects
PeerFetchReject(i) ==
  /\ ~syncPending
  /\ i \in DOMAIN peer.calls
  /\ peer.calls[i].pc = "fetch"
  /\ peer' = [peer EXCEPT !.calls[i].pc = "threw"]
  /\ UNCHANGED own

\* await response.json() rejects
PeerJsonReject(i) ==
  /\ ~syncPending
  /\ i \in DOMAIN peer.calls
  /\ peer.calls[i].pc = "json"
  /\ peer' = [peer EXCEPT !.calls[i].pc = "threw"]
  /\ UNCHANGED own

\* await response.json() resolves with null: result.feedback throws
PeerJsonNullResolve(i) ==
  /\ ~syncPending
  /\ i \in DOMAIN peer.calls
  /\ peer.calls[i].pc = "json"
  /\ peer' = [peer EXCEPT !.calls[i].pc = "threw", !.calls[i].result = JsonNull]
  /\ UNCHANGED own

\* setFeedback(result.feedback); setIsGrading(false)
PeerJsonResolve(i, r) ==
  /\ ~syncPending
  /\ i \in DOMAIN peer.calls
  /\ peer.calls[i].pc = "json"
  /\ r.kind = "object"
  /\ peer' = [peer EXCEPT !.feedback = ReadFeedback(r),
                          !.isGrading = FALSE,
                          !.calls[i].pc = "done",
                          !.calls[i].result = r]
  /\ UNCHANGED own

\* React commits the updates of the second instance's await continuation.
PeerRender ==
  /\ ~syncPending
  /\ peer.view # [code |-> peer.code, isGrading |-> peer.isGrading,
                  feedback |-> peer.feedback]
  /\ peer' = [peer EXCEPT !.view = [code |-> peer.code,
                                    isGrading |-> peer.isGrading,
                                    feedback |-> peer.feedback]]
  /\ UNCHANGED own

InitTwo ==
  /\ Init
  /\ props = [initCode |-> "print('hi')", lesson |-> "lesson-1",
              correction |-> "def f(): pass"]

NextTwo ==
  \/ Click
  \/ \E t \in OwnEditTexts : Edit(t)
  \/ \E i \in 1..MaxSubmits, s \in PeerStatuses : FetchResolve(i, s)
  \/ \E i \in 1..MaxSubmits : FetchReject(i)
  \/ \E i \in 1..MaxSubmits : JsonReject(i)
  \/ \E i \in 1..MaxSubmits : JsonNullResolve(i)
  \/ \E i \in 1..MaxSubmits, r \in PeerJsonValues : JsonResolve(i, r)
  \/ Render
  \/ PeerClick
  \/ \E t \in PeerEditTexts : PeerEdit(t)
  \/ \E i \in 1..MaxPeerSubmits, s \in PeerStatuses : PeerFetchResolve(i, s)
  \/ \E i \in 1..MaxPeerSubmits : PeerFetchReject(i)
  \/ \E i \in 1..MaxPeerSubmits : PeerJsonReject(i)
  \/ \E i \in 1..MaxPeerSubmits : PeerJsonNullResolve(i)
  \/ \E i \in 1..MaxPeerSubmits, r \in PeerJsonValues : PeerJsonResolve(i, r)
  \/ PeerRender

\* Two widgets on one page, each browser event handled in its own task.
SpecTwo == InitTwo /\ [][NextTwo]_vars

\* ------------------------------------------------------------------ claims
\* Response.ok: the status is in the range 200-299.
Ok(s) == s \in 200..299

\* A call that has run to an end: its handler returned or threw.
Resolved(i) == calls[i].pc \in {"done", "threw"}

\* The committed render shows the current hook state.
ViewCurrent ==
  view = [code |-> code, isGrading |-> isGrading, feedback |-> feedback]

\* C1: once every submit has resolved, by success or by failure, the widget
\* is Idle: isGrading is cleared, and the button is enabled once rendered.
C1_ResolvedSubmitReturnsToIdle ==
  (calls # <<>> /\ \A i \in DOMAIN calls : Resolved(i))
    => (~isGrading /\ (ViewCurrent => ~Disabled))

C3_SubmitWhileSubmittingIsNoOp ==
  [][(isGrading /\ clicks' = clicks + 1)
       => (requests' = requests /\ code' = code /\ feedback' = feedback
           /\ isGrading' = isGrading)]_vars

\* The step in which call i ends as a submission failure: its handler threw
\* (transport error, unparsable or null payload) or the response it
\* completes with has a non-2xx status.
FailsNow(i) ==
  /\ i \in DOMAIN calls
  /\ ~Resolved(i)
  /\ \/ calls'[i].pc = "threw"
     \/ calls'[i].pc = "done" /\ ~Ok(calls[i].status)

\* C4: when a submission fails the feedback is afterwards the feedback held
\* before, or an error indicator. Whatever its wording, an error indicator
\* is a value the panel shows: never "" or undefined.
C4_FailureKeepsFeedbackOrShowsError ==
  [][\A i \in 1..MaxSubmits :
       FailsNow(i) => (feedback' = feedback \/ feedback' \notin {"", Undefined})]_vars

\* C5: after a network error the widget is Idle and shows an error
\* indication (the feedback panel is the only element that can carry one).
C5_NetworkErrorReturnsToIdleWithError ==
  \A i \in DOMAIN calls :
    (calls[i].pc = "threw" /\ calls[i].status = 0)
      => (~isGrading /\ (ViewCurrent => PanelShown))

\* C6: a response with a non-2xx status is a submission failure like a
\* transport error: it never completes the handler's success path, the one
\* that stores the feedback field of its body.
C6_NonSuccessStatusNeverStored ==
  \A i \in DOMAIN calls :
    (calls[i].status # 0 /\ ~Ok(calls[i].status)) => calls[i].pc # "done"

\* C7: no error of the network call or of the parsing escapes handleSubmit,
\* and a widget whose submits have all ended accepts a further submit.
C7_NoErrorEscapesTheHandler ==
  /\ unhandled = 0
  /\ (ViewCurrent /\ \A i \in DOMAIN calls : Resolved(i)) => ~Disabled

\* C8: every accepted submit sends exactly one POST request with the editor
\* text of that moment and the two context strings of the initialization,
\* and the requests ever sent are as many as the accepted submits.
C8_OneRequestPerSubmit ==
  /\ [](Len(requests) = clicks)
  /\ [][(clicks' = clicks + 1 /\ ~isGrading)
          => requests' = Append(requests,
               [url |-> "/api/grade",
                method |-> "POST",
                contentType |-> "application/json",
                body |-> [code |-> code,
                          lesson |-> IF props.lesson = Omitted THEN "" ELSE props.lesson,
                          correction |-> IF props.correction = Omitted THEN ""
                                         ELSE props.correction]])]_vars

C8_Witness_TwoSubmitsTwoTexts ==
  /\ clicks = 2
  /\ Len(requests) = 2
  /\ requests[1].body.code # requests[2].body.code
  /\ requests[2].body.code # Default(props.initCode)

\* C9: a successful response carrying the feedback text f makes the stored
\* feedback exactly f, whatever was stored before, and the widget Idle.
C9_SuccessStoresFeedback ==
  [][\A i \in 1..MaxSubmits :
       (/\ i \in DOMAIN calls
        /\ calls[i].pc = "json"
        /\ calls'[i].pc = "done"
        /\ Ok(calls[i].status)
        /\ "feedback" \in DOMAIN calls'[i].result.fields)
         => (feedback' = calls'[i].result.fields.feedback /\ isGrading' = FALSE)]_vars

C9_Witness_SecondFeedbackReplacesFirst ==
  /\ Len(calls) = 2
  /\ \A i \in {1, 2} : calls[i].pc = "done" /\ Ok(calls[i].status)
  /\ calls[1].result = JsonObject([feedback |-> "Try again"])
  /\ calls[2].result = JsonObject([feedback |-> "Looks good"])
  /\ feedback = "Looks good"
  /\ ~isGrading

\* C10: a freshly initialized widget has the seed as its editor text, shows
\* no feedback, has no request outstanding and is Idle.
C10_FreshWidget ==
  pristine =>
    /\ code = (IF props.initCode = Omitted THEN "" ELSE props.initCode)
    /\ view.code = code
    /\ feedback = ""
    /\ ~PanelShown
    /\ Outstanding = {}
    /\ requests = <<>>
    /\ ~isGrading
    /\ ~Disabled

C10_Witness_SeededFreshWidget ==
  /\ pristine
  /\ code = "print('hi')"
  /\ props.lesson = "lesson-1"

\* C11: an edit, in Idle or in Submitting, makes the new text the editor
\* text (hook state and rendered value) and leaves isGrading as it was.
C11_EditSetsTextKeepsFlag ==
  [][editor' # editor
       => (code' = editor' /\ view'.code = editor' /\ isGrading' = isGrading)]_vars

C11_Witness_EditedWhileSubmitting ==
  /\ isGrading
  /\ Outstanding # {}
  /\ code = "x = 1"
  /\ requests[Len(requests)].body.code # "x = 1"

\* C12: an edit is enabled in every state, also while a request is
\* outstanding, and it sends nothing and leaves the stored feedback and the
\* calls in flight unchanged.
C12_EditAlwaysEnabledNoSideEffect ==
  /\ [](\A t \in EditTexts : ENABLED Edit(t))
  /\ [][editor' # editor
          => (requests' = requests /\ calls' = calls /\ feedback' = feedback
              /\ clicks' = clicks /\ unhandled' = unhandled)]_vars

C12_Witness_EditedWithFeedbackAndRequest ==
  /\ Len(calls) = 2
  /\ calls[2].pc = "json"
  /\ feedback = "Try again"
  /\ editor = ""
  /\ requests[2].body.code = "x = 1"

\* C13: isGrading is a boolean that changes in two ways only: from false to
\* true in the step of a submit, which sends its request, and from true to
\* false in the step in which the response of the latest submit ends its
\* call (handler done, or thrown).
C13_FlagChangesOnlyBySubmitAndResponse ==
  /\ [](isGrading \in BOOLEAN)
  /\ [][isGrading' # isGrading
          => \/ /\ ~isGrading /\ isGrading'
                /\ clicks' = clicks + 1
                /\ Len(requests') = Len(requests) + 1
             \/ /\ isGrading /\ ~isGrading'
                /\ calls # <<>>
                /\ ~Resolved(Len(calls))
                /\ calls'[Len(calls)].pc \in {"done", "threw"}]_vars

C13_Witness_BackToIdleTwice ==
  /\ Len(calls) = 2
  /\ calls[1].pc = "done" /\ calls[1].status = 500
  /\ calls[2].pc = "done" /\ calls[2].status = 200
  /\ ~isGrading

\* The state of the first instance that an event of another could touch.
OwnState == <<editor, code, isGrading, feedback, view, calls, requests>>

\* C14: no event changes the state of two instances: a step that changes
\* the editor text, feedback, flag, render, calls or requests of one
\* instance leaves those of the other as they were.
C14_InstancesShareNoState ==
  [][OwnState' # OwnState => peer' = peer]_vars

C14_Witness_InstancesDiffer ==
  /\ isGrading /\ Outstanding # {} /\ feedback = "" /\ code = "x = 1"
  /\ ~peer.isGrading /\ peer.feedback = "Looks good" /\ peer.code = "y = 2"
  /\ Len(peer.requests) = 1
  /\ peer.requests[1].body.lesson = "lesson-2"
  /\ requests[1].body.lesson = "lesson-1"

\* C15: a submission is a snapshot of the editor at the submit: the request
\* appended by a submit carries the document of that moment, a request once
\* sent never changes, whatever is edited afterwards, and the feedback
\* stored at the response is the one of its result.
C15_SubmissionIsSnapshot ==
  /\ [][Len(requests') > Len(requests)
          => requests'[Len(requests')].body.code = editor]_vars
  /\ [][\A i \in 1..MaxSubmits :
          i \in DOMAIN requests
            => (i \in DOMAIN requests' /\ requests'[i] = requests[i])]_vars
  /\ [][\A i \in 1..MaxSubmits :
          (i \in DOMAIN calls /\ calls[i].pc = "json" /\ calls'[i].pc = "done")
            => feedback' = ReadFeedback(calls'[i].result)]_vars

C15_Witness_EditedAfterSnapshot ==
  /\ Len(calls) = 1
  /\ calls[1].pc = "done"
  /\ requests[1].body.code = "print('hi')"
  /\ editor = "x = 1"
  /\ view.isGrading
  /\ feedback = "Looks good"

\* C16: the flag is set in the step that issues the request and stays set
\* while the call is outstanding, and the feedback is stored in the step
\* that clears the flag: no state, in the hooks or rendered, is Idle after
\* the latest call is done and still holds another feedback than its own.
C16_SubmitStepsInOrder ==
  /\ [][Len(requests') > Len(requests) => isGrading']_vars
  /\ [](Outstanding # {} => isGrading)
  /\ [](calls # <<>> /\ calls[Len(calls)].pc = "done"
          => /\ ~isGrading => feedback = ReadFeedback(calls[Len(calls)].result)
             /\ ~view.isGrading
                  => view.feedback = ReadFeedback(calls[Len(calls)].result))

C16_Witness_RenderedIdleWithNewFeedback ==
  /\ Len(calls) = 2
  /\ calls[2].pc = "done" /\ calls[2].status = 200
  /\ calls[1].result = JsonObject([feedback |-> "Looks good"])
  /\ ~view.isGrading
  /\ view.feedback = "Try again"

\* C17: isGrading is true exactly when exactly one request is outstanding.
C17_FlagIffOneOutstanding ==
  isGrading <=> Cardinality(Outstanding) = 1

\* C18: when every request is answered by a well-formed successful
\* response, every accepted submit leads to a state in which its call is
\* done, the widget is Idle with the button enabled, and the feedback stored
\* and rendered is the one of its response.
C18_SubmitLeadsToIdleWithFeedback ==
  \A i \in 1..MaxSubmits :
    (i \in DOMAIN calls /\ calls[i].pc = "fetch")
      ~> (/\ i \in DOMAIN calls
          /\ calls[i].pc = "done"
          /\ ~isGrading
          /\ ~Disabled
          /\ feedback = ReadFeedback(calls[i].result)
          /\ view.feedback = feedback)

C18_Witness_AnsweredAndRendered ==
  /\ Len(calls) = 2
  /\ calls[2].pc = "done"
  /\ calls[2].result = JsonObject([feedback |-> "Looks good"])
  /\ view = [code |-> "x = 1", isGrading |-> FALSE, feedback |-> "Looks good"]
  /\ ViewCurrent

\* C19: once the submits so far have resolved and the widget is rendered
\* Idle, a further submit is accepted; it sends one new request with the
\* document of that moment, and its successful response replaces the
\* feedback of the earlier submit.
C19_WidgetIsReusable ==
  /\ []((/\ calls # <<>>
         /\ \A i \in DOMAIN calls : Resolved(i)
         /\ ~isGrading
         /\ ViewCurrent
         /\ Len(calls) < MaxSubmits) => ENABLED Click)
  /\ [][(clicks >= 1 /\ clicks' = clicks + 1)
          => /\ Len(requests') = Len(requests) + 1
             /\ requests'[Len(requests')].body.code = editor
             /\ \A i \in DOMAIN requests : requests'[i] = requests[i]]_vars
  /\ [][\A i \in 2..MaxSubmits :
          (/\ i \in DOMAIN calls
           /\ calls[i].pc = "json"
           /\ calls'[i].pc = "done"
           /\ Ok(calls[i].status)
           /\ "feedback" \in DOMAIN calls'[i].result.fields)
            => feedback' = calls'[i].result.fields.feedback]_vars

C19_Witness_SecondSubmitReplaced ==
  /\ clicks = 2
  /\ calls[1].pc = "done" /\ calls[1].result = JsonObject([feedback |-> "Try again"])
  /\ calls[2].pc = "done" /\ calls[2].status = 200
  /\ requests[1].body.code = "pass"
  /\ requests[2].body.code = "x = 1"
  /\ feedback = "Looks good"
  /\ ViewCurrent

\* C20: while a call stays outstanding the widget stays Submitting with the
\* button disabled and sends nothing more, and the flag is cleared only in
\* a step in which an outstanding call ends.
C20_NoTimeoutRetryCancel ==
  /\ [](Outstanding # {} => (isGrading /\ Disabled))
  /\ [][\A i \in 1..MaxSubmits :
          (i \in Outstanding /\ i \in Outstanding')
            => (isGrading' /\ Disabled' /\ requests' = requests)]_vars
  /\ [][(isGrading /\ ~isGrading')
          => \E i \in Outstanding : i \notin Outstanding']_vars

C20_Witness_StillWaitingAfterEdits ==
  /\ Len(calls) = 2
  /\ calls[2].pc = "fetch"
  /\ isGrading /\ Disabled
  /\ Len(requests) = 2
  /\ editor # requests[2].body.code
  /\ editor # requests[1].body.code

\* C21: starting a submit leaves the editor text and the stored feedback
\* unchanged; while a request is outstanding the feedback of the earlier
\* submission stays stored and displayed; the stored feedback changes only
\* in the step in which a response arrives.
C21_SubmitKeepsTextAndFeedback ==
  [][/\ (clicks' = clicks + 1) =>
          /\ editor' = editor /\ code' = code
          /\ feedback' = feedback /\ view'.feedback = view.feedback
     /\ (\E i \in DOMAIN calls :
            calls[i].pc \in {"fetch", "json"}
              /\ calls'[i].pc \in {"fetch", "json"}) =>
          /\ feedback' = feedback
          /\ view'.feedback = view.feedback
          /\ PanelShown' = PanelShown
     /\ (feedback' # feedback) =>
          \E i \in DOMAIN calls :
            calls[i].pc = "json" /\ calls'[i].pc = "done"]_vars

C21_Witness_OldFeedbackShownWhileWaiting ==
  /\ Len(calls) = 2
  /\ calls[1].pc = "done"
  /\ calls[2].pc = "json"
  /\ feedback = "Try again"
  /\ view.feedback = "Try again"
  /\ PanelShown
  /\ Disabled

\* C22: the arrival of a response, success or failure, never modifies the
\* editor text: a step that ends or advances a call leaves the editor, the
\* stored text and the rendered text as they were, so the text is always the
\* result of the last edit, edits made while the request was outstanding
\* included.
C22_ResponseKeepsEditorText ==
  [][/\ (\E i \in DOMAIN calls : calls'[i].pc # calls[i].pc) =>
          /\ editor' = editor
          /\ code' = code
          /\ view'.code = view.code
     /\ code' = editor'
     /\ view'.code = editor']_vars

C22_Witness_EditSurvivesResponse ==
  /\ Len(calls) = 1
  /\ calls[1].pc = "done"
  /\ calls[1].status = 500
  /\ requests[1].body.code = "pass"
  /\ editor = "x = 1"
  /\ code = "x = 1"
  /\ view.code = "x = 1"
  /\ ~isGrading

\* C23: the button is disabled exactly when the submitting flag is true and
\* its label is "Grading..." exactly when it is disabled, "Submit" otherwise.
\* The render binds both to the flag it read: in every state the label follows
\* the disabled attribute and a set flag means a disabled button, every render
\* React commits makes the button agree with the flag, and the two agree in
\* every state in which no update is waiting for a render.
C23_ButtonFollowsFlag ==
  /\ [](/\ ButtonLabel = (IF Disabled THEN "Grading..." ELSE "Submit")
        /\ isGrading => Disabled
        /\ ViewCurrent => (Disabled <=> isGrading)
        /\ ViewCurrent => (ButtonLabel = "Grading..." <=> isGrading))
  /\ [][Render => /\ Disabled' <=> isGrading'
                  /\ ButtonLabel' = "Grading..." <=> isGrading']_vars

C23_Witness_DisabledThenEnabledAgain ==
  /\ Len(calls) = 2
  /\ calls[1].pc = "done"
  /\ calls[2].pc = "fetch"
  /\ isGrading
  /\ Disabled
  /\ ButtonLabel = "Grading..."
  /\ ViewCurrent

\* C24: the feedback panel is rendered exactly when the stored feedback is a
\* non-empty value: it is hidden on a fresh widget, it shows exactly the
\* non-empty feedback once the render is current, and a successful response
\* whose feedback text is empty leaves the panel hidden once rendered.
C24_PanelIffFeedbackNonEmpty ==
  /\ pristine => ~PanelShown
  /\ ViewCurrent => (PanelShown <=> feedback \in FeedbackTexts \ {""})
  /\ \A i \in DOMAIN calls :
       (/\ i = Len(calls)
        /\ calls[i].pc = "done"
        /\ Ok(calls[i].status)
        /\ calls[i].result = JsonObject([feedback |-> ""])
        /\ ViewCurrent) => ~PanelShown

C24_Witness_EmptyFeedbackHidesPanel ==
  /\ Len(calls) = 2
  /\ calls[1].result = JsonObject([feedback |-> "Looks good"])
  /\ calls[2].pc = "done"
  /\ calls[2].status = 200
  /\ calls[2].result = JsonObject([feedback |-> ""])
  /\ feedback = ""
  /\ ViewCurrent
  /\ ~PanelShown

\* C25: a response whose body parses as a JSON object without a feedback
\* field still returns the widget to Idle and replaces the stored feedback
\* with the absent value, whatever was stored before; once rendered, the
\* button is enabled again and the panel of the earlier feedback is gone.
C25_MissingFieldClearsFeedback ==
  /\ [][\A i \in DOMAIN calls :
          (/\ calls[i].pc = "json"
           /\ calls'[i].pc = "done"
           /\ "feedback" \notin DOMAIN calls'[i].result.fields)
            => (feedback' = Undefined /\ ~isGrading')]_vars
  /\ [](\A i \in DOMAIN calls :
          (/\ i = Len(calls)
           /\ calls[i].pc = "done"
           /\ "feedback" \notin DOMAIN calls[i].result.fields)
            => /\ feedback = Undefined
               /\ ~isGrading
               /\ ViewCurrent => (~PanelShown /\ ~Disabled))

C25_Witness_EarlierFeedbackGone ==
  /\ Len(calls) = 2
  /\ calls[1].result = JsonObject([feedback |-> "Looks good"])
  /\ calls[2].pc = "done"
  /\ calls[2].result = JsonObject([error |-> "Internal Server Error"])
  /\ feedback = Undefined
  /\ ~isGrading
  /\ ViewCurrent
  /\ ~PanelShown

\* C26: a seed text or context string omitted at initialization defaults to
\* the empty string: the fresh widget's text is "" when the seed is omitted,
\* a submit from it sends "" as the code, and every request body carries all
\* three fields, with "" and never an absent value for an omitted lesson or
\* correction.
C26_OmittedPropsDefaultToEmpty ==
  /\ []((pristine /\ props.initCode = Omitted) => (code = "" /\ editor = ""))
  /\ [](\A i \in DOMAIN requests :
          /\ DOMAIN requests[i].body = {"code", "lesson", "correction"}
          /\ requests[i].body.code # Omitted
          /\ requests[i].body.lesson # Omitted
          /\ requests[i].body.correction # Omitted
          /\ props.lesson = Omitted => requests[i].body.lesson = ""
          /\ props.correction = Omitted => requests[i].body.correction = "")
  /\ [][(pristine /\ clicks' = clicks + 1 /\ props.initCode = Omitted)
          => requests'[1].body.code = ""]_vars

C26_Witness_AllOmittedSubmitted ==
  /\ props = [initCode |-> Omitted, lesson |-> Omitted, correction |-> Omitted]
  /\ Len(requests) = 1
  /\ requests[1].body = [code |-> "", lesson |-> "", correction |-> ""]
  /\ editor = ""
  /\ calls[1].pc = "fetch"

====
